---- MODULE Spec2Model ----
(***************************************************************************)
(* A model of cliffhangar.py: one run of main(), which fetches the script  *)
(* text of the occupancy widget, extracts the first balanced {...} span,   *)
(* repairs it into JSON text, parses it, maps it to a 21-entry row and     *)
(* appends the row to the spreadsheet.                                     *)
(*                                                                         *)
(* Text is a sequence of one-character strings.  Positions are 1-based;    *)
(* position 0 stands for Python's None where an index is expected.         *)
(***************************************************************************)
EXTENDS Integers, Sequences, FiniteSets, TLC

VARIABLES
    pc,         \* position of main(): which statement runs next
    script,     \* soup('script')[2].string handed to scrape_script
    span,       \* start_index and index at the return of the scan loop
    json_text,  \* value returned by scrape_occupancy_data
    values,     \* the record json.loads returned inside json_to_row
    map_time,   \* the value datetime.now() returned inside json_to_row
    row,        \* the row returned by scrape()
    error,      \* the exception that ended the run, if any
    sheet       \* the bodies appended to the spreadsheet range

vars == <<pc, script, span, json_text, values, map_time, row, error, sheet>>

----------------------------------------------------------------------------
(* Bounds of the model. *)

\* longest text of the exhaustively enumerated brace family
MaxScanLen == 6
\* most pieces between the braces of the formatting family
MaxBodyLen == 4

----------------------------------------------------------------------------
(* Characters and small helpers. *)

Min(S) == CHOOSE x \in S : \A y \in S : x <= y

\* Python's None where a text is expected
NoneText == <<"<None>">>

\* Python's None where a row is expected (a real row has 21 entries)
NoRow == <<>>

SQ == "'"
DQ == "\""
NL == "\n"
CR == "\r"

\* the characters str.strip() removes, among those of the model's alphabet
Whitespace == {" ", "\t", "\n", "\r"}

\* the line boundaries of str.splitlines(), among those of the model's alphabet
LineBreaks == {"\n", "\r"}

Digits == <<"0", "1", "2", "3", "4", "5", "6", "7", "8", "9">>

IsDigit(c) == \E d \in 1..10 : Digits[d] = c

DigitVal(c) == (CHOOSE d \in 1..10 : Digits[d] = c) - 1

\* does text w occur in s starting at position i
StartsWithAt(s, i, w) ==
    /\ i >= 1
    /\ i + Len(w) - 1 <= Len(s)
    /\ SubSeq(s, i, i + Len(w) - 1) = w

Contains(s, w) == \E i \in 1..Len(s) : StartsWithAt(s, i, w)

Drop(s, n) == SubSeq(s, n + 1, Len(s))

----------------------------------------------------------------------------
(* format_scraped_json *)

\* x.strip(): drop leading and trailing whitespace
Strip(x) ==
    LET keep == {i \in 1..Len(x) : x[i] \notin Whitespace}
    IN IF keep = {} THEN <<>>
       ELSE SubSeq(x, Min(keep), CHOOSE j \in keep : \A k \in keep : k <= j)

\* x.replace('\'', '"')
ReplaceQuotes(x) == [i \in 1..Len(x) |-> IF x[i] = SQ THEN DQ ELSE x[i]]

RECURSIVE SplitFrom(_, _)
\* data.splitlines(), from position i on. Every boundary ("\n", "\r" or
\* "\r\n") ends a line; what follows the last boundary is a line only when it
\* is not empty.
SplitFrom(data, i) ==
    LET breaks == {j \in i..Len(data) : data[j] \in LineBreaks}
        b == Min(breaks)
        after == IF data[b] = CR /\ b < Len(data) /\ data[b + 1] = NL
                 THEN b + 2 ELSE b + 1
    IN IF breaks = {}
       THEN (IF i > Len(data) THEN <<>> ELSE <<SubSeq(data, i, Len(data))>>)
       ELSE <<SubSeq(data, i, b - 1)>> \o SplitFrom(data, after)

SplitLines(data) == SplitFrom(data, 1)

RECURSIVE JoinLines(_)
\* '\n'.join(lines)
JoinLines(lines) ==
    IF lines = <<>> THEN <<>>
    ELSE IF Len(lines) = 1 THEN lines[1]
    ELSE lines[1] \o <<NL>> \o JoinLines(Tail(lines))

RECURSIVE Replace(_, _, _)
\* s.replace(old, new): non-overlapping occurrences, left to right, one pass
Replace(s, old, new) ==
    LET found == {i \in 1..Len(s) : StartsWithAt(s, i, old)}
        f == Min(found)
    IN IF found = {} THEN s
       ELSE SubSeq(s, 1, f - 1) \o new
            \o Replace(Drop(s, f + Len(old) - 1), old, new)

CommaNewlineBrace == <<",", NL, "}">>
NewlineBrace == <<NL, "}">>
CommaSpacesBrace == <<",", " ", " ", " ", " ", "}">>
Brace == <<"}">>

\* the text after the per-line transform, before the two replace() calls
PerLine(data) ==
    LET lines == SplitLines(data)
    IN JoinLines([k \in 1..Len(lines) |-> ReplaceQuotes(Strip(lines[k]))])

\* variant: the replace of ',\n}' is left out
FirstReplaceSkipped(data) ==
    Replace(PerLine(data), CommaSpacesBrace, Brace)

format_scraped_json(data) ==
    Replace(Replace(PerLine(data), CommaNewlineBrace, NewlineBrace),
            CommaSpacesBrace, Brace)

----------------------------------------------------------------------------
(* scrape_occupancy_data *)

NoSpan == [start_index |-> 0, index |-> 0]

RECURSIVE ScanFrom(_, _, _, _)

\* variant: an unmatched '}' is skipped instead of ending the scan
ScanKeepsGoing(data, i, start_index, unclosed_braces) ==
    LET braces == {j \in i..Len(data) : data[j] \in {"{", "}"}}
        index == Min(braces)
    IN IF braces = {} THEN NoSpan
       ELSE IF data[index] = "{"
            THEN ScanFrom(data, index + 1,
                          IF start_index = 0 THEN index ELSE start_index,
                          unclosed_braces + 1)
       ELSE IF unclosed_braces = 0
            THEN ScanFrom(data, index + 1, start_index, unclosed_braces)
       ELSE IF unclosed_braces - 1 = 0
            THEN [start_index |-> start_index, index |-> index]
       ELSE ScanFrom(data, index + 1, start_index, unclosed_braces - 1)

\* the for loop, from position i on: characters other than braces change
\* nothing, so the loop is followed from brace to brace. The result is
\* start_index and index at the return inside the loop, or NoSpan for both
\* `return None`.
ScanFrom(data, i, start_index, unclosed_braces) ==
    LET braces == {j \in i..Len(data) : data[j] \in {"{", "}"}}
        index == Min(braces)
    IN IF braces = {} THEN NoSpan
       ELSE IF data[index] = "{"
            THEN ScanFrom(data, index + 1,
                          IF start_index = 0 THEN index ELSE start_index,
                          unclosed_braces + 1)
       ELSE IF unclosed_braces = 0 THEN NoSpan
       ELSE IF unclosed_braces - 1 = 0
            THEN [start_index |-> start_index, index |-> index]
       ELSE ScanFrom(data, index + 1, start_index, unclosed_braces - 1)

\* variant: the span runs to the last '}' of the text
ScanToLastClose(data) ==
    LET s == ScanFrom(data, 1, 0, 0)
        closes == {i \in 1..Len(data) : data[i] = "}"}
    IN IF s = NoSpan THEN NoSpan
       ELSE [start_index |-> s.start_index,
             index |-> CHOOSE j \in closes : \A k \in closes : k <= j]

\* start_index and index when the scan of data returns
Scan(data) == ScanFrom(data, 1, 0, 0)

\* data[start_index:index+1]
Slice(data, s) == SubSeq(data, s.start_index, s.index)

SpanText(data, s) ==
    IF s = NoSpan THEN NoneText ELSE format_scraped_json(Slice(data, s))

scrape_occupancy_data(data) == SpanText(data, Scan(data))

----------------------------------------------------------------------------
(* json.loads, as json_to_row calls it (line 63): the default decoder, which  *)
(* accepts strict JSON and also the bare constants NaN, Infinity, -Infinity.  *)
(* Modelled for texts without '[', '\', '.', and without an exponent after a  *)
(* number: the inputs of the model hold none of them.                         *)

\* A parsed value. t is its Python type; n, s, m hold an int, a str, a dict.
MkConst(t) == [t |-> t, n |-> 0, s |-> <<>>, m |-> <<>>]
MkInt(n) == [t |-> "int", n |-> n, s |-> <<>>, m |-> <<>>]
MkStr(s) == [t |-> "str", n |-> 0, s |-> s, m |-> <<>>]
MkDict(m) == [t |-> "dict", n |-> 0, s |-> <<>>, m |-> m]
\* the inner defaultdict(str) the outer default factory makes
MkDefaultDict == [t |-> "defaultdict", n |-> 0, s |-> <<>>, m |-> <<>>]
\* no value yet
NoValue == MkConst("unset")

ParseFail == [ok |-> FALSE, val |-> NoValue, end |-> 0]
ParseOk(v, e) == [ok |-> TRUE, val |-> v, end |-> e]

\* WHITESPACE.match(s, i).end(): the first position from i on that holds no
\* JSON whitespace
SkipWs(s, i) ==
    Min({j \in i..(Len(s) + 1) : j = Len(s) + 1 \/ s[j] \notin Whitespace})

\* scanstring with strict=True, i at the first character after the opening
\* quote: the string ends at the next '"'; a control character before it is
\* an error
ParseString(s, i) ==
    LET stops == {j \in i..Len(s) : s[j] = DQ \/ s[j] \in {"\n", "\r", "\t"}}
    IN IF stops = {} THEN ParseFail
       ELSE LET j == Min(stops)
            IN IF s[j] = DQ THEN ParseOk(MkStr(SubSeq(s, i, j - 1)), j + 1)
               ELSE ParseFail

RECURSIVE NatOf(_)
\* int() of a run of decimal digits
NatOf(ds) ==
    IF ds = <<>> THEN 0
    ELSE 10 * NatOf(SubSeq(ds, 1, Len(ds) - 1)) + DigitVal(ds[Len(ds)])

\* NUMBER_RE.match(s, i), integer part: -?(0|[1-9][0-9]*)
ParseNumber(s, i) ==
    LET neg == i <= Len(s) /\ s[i] = "-"
        d == IF neg THEN i + 1 ELSE i
        nondigit == {j \in d..(Len(s) + 1) : j = Len(s) + 1 \/ ~IsDigit(s[j])}
        e == IF d <= Len(s) /\ s[d] = "0" THEN d + 1 ELSE Min(nondigit)
    IN IF d > Len(s) \/ ~IsDigit(s[d]) THEN ParseFail
       ELSE ParseOk(MkInt((IF neg THEN -1 ELSE 1) * NatOf(SubSeq(s, d, e - 1))),
                    e)

W_null == <<"n", "u", "l", "l">>
W_true == <<"t", "r", "u", "e">>
W_false == <<"f", "a", "l", "s", "e">>
W_NaN == <<"N", "a", "N">>
W_Infinity == <<"I", "n", "f", "i", "n", "i", "t", "y">>
W_NegInfinity == <<"-">> \o W_Infinity

RECURSIVE ParseValue(_, _, _), ParseMembers(_, _, _, _)

\* scan_once(s, i). constants: whether NaN, Infinity and -Infinity are
\* accepted (json.loads: yes; the JSON grammar: no).
ParseValue(s, i, constants) ==
    IF i > Len(s) THEN ParseFail
    ELSE IF s[i] = DQ THEN ParseString(s, i + 1)
    ELSE IF s[i] = "{"
         THEN LET j == SkipWs(s, i + 1)
              IN IF j > Len(s) THEN ParseFail
                 ELSE IF s[j] = "}" THEN ParseOk(MkDict(<<>>), j + 1)
                 ELSE IF s[j] = DQ THEN ParseMembers(s, j, <<>>, constants)
                 ELSE ParseFail
    ELSE IF StartsWithAt(s, i, W_null) THEN ParseOk(MkConst("NoneType"), i + 4)
    ELSE IF StartsWithAt(s, i, W_true) THEN ParseOk(MkConst("True"), i + 4)
    ELSE IF StartsWithAt(s, i, W_false) THEN ParseOk(MkConst("False"), i + 5)
    ELSE IF ParseNumber(s, i).ok THEN ParseNumber(s, i)
    ELSE IF constants /\ StartsWithAt(s, i, W_NaN)
         THEN ParseOk(MkConst("nan"), i + 3)
    ELSE IF constants /\ StartsWithAt(s, i, W_Infinity)
         THEN ParseOk(MkConst("inf"), i + 8)
    ELSE IF constants /\ StartsWithAt(s, i, W_NegInfinity)
         THEN ParseOk(MkConst("-inf"), i + 9)
    ELSE ParseFail

\* the while loop of JSONObject, i at the opening quote of the next key and
\* m the pairs read so far (a later pair replaces an earlier one of its key)
ParseMembers(s, i, m, constants) ==
    LET key == ParseString(s, i + 1)
        colon == SkipWs(s, key.end)
        val == ParseValue(s, SkipWs(s, colon + 1), constants)
        next == SkipWs(s, val.end)
        m2 == (key.val.s :> val.val) @@ m
        after == SkipWs(s, next + 1)
    IN IF ~key.ok THEN ParseFail
       ELSE IF colon > Len(s) \/ s[colon] # ":" THEN ParseFail
       ELSE IF ~val.ok THEN ParseFail
       ELSE IF next > Len(s) THEN ParseFail
       ELSE IF s[next] = "}" THEN ParseOk(MkDict(m2), next + 1)
       ELSE IF s[next] # "," THEN ParseFail
       ELSE IF after > Len(s) \/ s[after] # DQ THEN ParseFail
       ELSE ParseMembers(s, after, m2, constants)

\* decode(s): one value, whitespace around it, and nothing after it
Decode(s, constants) ==
    LET r == ParseValue(s, SkipWs(s, 1), constants)
    IN IF r.ok /\ SkipWs(s, r.end) = Len(s) + 1 THEN r ELSE ParseFail

json_loads(s) == Decode(s, TRUE)

----------------------------------------------------------------------------
(* json_to_row *)

ARC == <<"A", "R", "C">>
ERV == <<"E", "R", "V">>
HDS == <<"H", "D", "S">>
LON == <<"L", "O", "N">>
MVJ == <<"M", "V", "J">>
RCU == <<"R", "C", "U">>
RIV == <<"R", "I", "V">>
SCL == <<"S", "C", "L">>
SPB == <<"S", "P", "B">>
UPL == <<"U", "P", "L">>
count == <<"c", "o", "u", "n", "t">>
capacity == <<"c", "a", "p", "a", "c", "i", "t", "y">>

\* the facility codes in the order of lines 67-86
FacilityCodes == <<ARC, ERV, HDS, LON, MVJ, RCU, RIV, SCL, SPB, UPL>>

Fields == <<count, capacity>>

\* the code and field of the k-th str(...) of the list, k = 1..20
SlotCode(k) == FacilityCodes[((k - 1) \div 2) + 1]
SlotField(k) == Fields[((k - 1) % 2) + 1]

\* how many str(...) entries the list of lines 65-87 has
NumSlots == 20

NoTime == [year |-> 0, month |-> 0, day |-> 0, hour |-> 0, minute |-> 0,
           second |-> 0, microsecond |-> 0]

RECURSIVE Pad(_, _)
\* '%0wd' % n, for 0 <= n < 10^w
Pad(n, w) ==
    IF w = 0 THEN <<>> ELSE Pad(n \div 10, w - 1) \o <<Digits[(n % 10) + 1]>>

RECURSIVE NatToStr(_)
NatToStr(n) ==
    IF n < 10 THEN <<Digits[n + 1]>>
    ELSE NatToStr(n \div 10) \o <<Digits[(n % 10) + 1]>>

\* str(n) of an int
IntToStr(n) == IF n < 0 THEN <<"-">> \o NatToStr(-n) ELSE NatToStr(n)

IsoDateTime(t, sep) ==
    Pad(t.year, 4) \o <<"-">> \o Pad(t.month, 2) \o <<"-">> \o Pad(t.day, 2)
    \o sep \o Pad(t.hour, 2) \o <<":">> \o Pad(t.minute, 2) \o <<":">>
    \o Pad(t.second, 2)

\* variant: the separator argument is ignored (isoformat() without ' ')
IsoSepT(t, sep) ==
    IsoDateTime(t, <<"T">>)
    \o (IF t.microsecond # 0 THEN <<".">> \o Pad(t.microsecond, 6) ELSE <<>>)

\* datetime.isoformat(sep): the fraction is written only when the
\* microsecond is not 0
isoformat(t, sep) ==
    IsoDateTime(t, sep)
    \o (IF t.microsecond # 0 THEN <<".">> \o Pad(t.microsecond, 6) ELSE <<>>)

\* str(v) of a decoded value; the repr of a non-empty dict is not modelled
\* (no input of the model puts one in a count or capacity field)
PyStr(v) ==
    CASE v.t = "int" -> IntToStr(v.n)
      [] v.t = "str" -> v.s
      [] v.t = "NoneType" -> <<"N", "o", "n", "e">>
      [] v.t = "True" -> <<"T", "r", "u", "e">>
      [] v.t = "False" -> <<"F", "a", "l", "s", "e">>
      [] v.t = "nan" -> <<"n", "a", "n">>
      [] v.t = "inf" -> <<"i", "n", "f">>
      [] v.t = "-inf" -> <<"-", "i", "n", "f">>
      [] v.t \in {"dict", "defaultdict"} /\ DOMAIN v.m = {} -> <<"{", "}">>

\* the exceptions of the pipeline: enumerate(None), json.loads(None), a text
\* json.loads rejects, a missing key of a plain dict, a subscript of a value
\* that is no mapping
NotIterable == "TypeError: 'NoneType' object is not iterable"
NotAString == "TypeError: the JSON object must be str, bytes or bytearray"
JSONDecodeError == "JSONDecodeError"
KeyError == "KeyError"
NotSubscriptable == "TypeError: object is not subscriptable"

ItemOk(v) == [err |-> "", val |-> v]
ItemErr(e) == [err |-> e, val |-> NoValue]

\* values[code]: values is the outer defaultdict after update(); a key that
\* is absent gets a fresh defaultdict(str)
OuterItem(vals, code) ==
    IF code \in DOMAIN vals.m THEN vals.m[code] ELSE MkDefaultDict

\* variant: the default factory of the inner mapping is int, not str
InnerDefaultZero(v, field) ==
    IF v.t = "defaultdict" THEN ItemOk(MkInt(0))
    ELSE IF v.t = "dict"
         THEN IF field \in DOMAIN v.m THEN ItemOk(v.m[field])
              ELSE ItemErr(KeyError)
    ELSE ItemErr(NotSubscriptable)

\* v[field]: a defaultdict(str) yields str() == '' for any field; a dict that
\* update() copied from the decoded record is a plain dict and raises KeyError
\* for a missing field; any other decoded value cannot be subscripted by a str
InnerItem(v, field) ==
    IF v.t = "defaultdict" THEN ItemOk(MkStr(<<>>))
    ELSE IF v.t = "dict"
         THEN IF field \in DOMAIN v.m THEN ItemOk(v.m[field])
              ELSE ItemErr(KeyError)
    ELSE ItemErr(NotSubscriptable)

\* variant: capacity is listed before count
SlotSwapped(vals, k) ==
    InnerItem(OuterItem(vals, SlotCode(k)), Fields[2 - ((k - 1) % 2)])

\* values[code][field] of the k-th str(...) of the list
Slot(vals, k) == InnerItem(OuterItem(vals, SlotCode(k)), SlotField(k))

Outcome(e, v, t, r) == [error |-> e, values |-> v, map_time |-> t, row |-> r]

\* variant: the decode error is caught and an empty record mapped instead
SwallowedDecodeError(now) ==
    Outcome("", MkDict(<<>>), now,
            <<isoformat(now, <<" ">>)>> \o [k \in 1..NumSlots |-> <<>>])

\* json.loads raises JSONDecodeError at line 63 and nothing catches it: the
\* update, the clock read and the list are not reached
DecodeFailed(now) == Outcome(JSONDecodeError, NoValue, NoTime, NoRow)

\* json_to_row(data), with now the value datetime.now() returns if it is
\* called. json.loads(None) raises TypeError; a text json.loads rejects raises
\* JSONDecodeError; the list is evaluated left to right and the first
\* subscript that raises ends it. The text handed over starts with '{', so
\* what json.loads returns is a dict.
json_to_row(data, now) ==
    IF data = NoneText THEN Outcome(NotAString, NoValue, NoTime, NoRow)
    ELSE LET r == json_loads(data)
             items == [k \in 1..NumSlots |-> Slot(r.val, k)]
             bad == {k \in 1..NumSlots : items[k].err # ""}
         IN IF ~r.ok THEN DecodeFailed(now)
            ELSE IF bad # {}
                 THEN Outcome(items[Min(bad)].err, r.val, now, NoRow)
            ELSE Outcome("", r.val, now,
                         <<isoformat(now, <<" ">>)>>
                         \o [k \in 1..NumSlots |-> PyStr(items[k].val)])

\* make_value_range(row)
make_value_range(r) == [majorDimension |-> "ROWS", values |-> <<r>>]

----------------------------------------------------------------------------
(* The script texts the page may hold, and the clock values datetime.now()  *)
(* may return.                                                              *)

RECURSIVE Flatten(_)
Flatten(ss) == IF ss = <<>> THEN <<>> ELSE ss[1] \o Flatten(Tail(ss))

SeqsUpTo(S, n) == UNION {[1..k -> S] : k \in 0..n}

\* every text of braces and other characters up to MaxScanLen
ScanFamily == SeqsUpTo({"{", "}", "a"}, MaxScanLen)

FormatPieces ==
    {<<",">>, <<NL>>, <<CR>>, <<SQ>>, <<" ">>, <<" ", " ", " ", " ">>, <<"a">>}

\* one pair of braces around up to MaxBodyLen pieces of commas, line breaks,
\* quotes and blanks
FormatFamily ==
    {<<"{">> \o Flatten(b) \o <<"}">> : b \in SeqsUpTo(FormatPieces, MaxBodyLen)}

Quoted(word) == <<SQ>> \o word \o <<SQ>>

\* an inner object the way the widget writes it: one field per line,
\* single quotes, a comma after the last field
Full(c, p) ==
    <<"{", NL, " ", " ">> \o Quoted(count) \o <<":", " ">> \o c
    \o <<",", NL, " ", " ">> \o Quoted(capacity) \o <<":", " ">> \o p
    \o <<",", NL, "}">>

\* both fields on one line, closed by ',    }'
OneLine(c, p) ==
    <<"{">> \o Quoted(count) \o <<":", " ">> \o c \o <<",", " ">>
    \o Quoted(capacity) \o <<":", " ">> \o p \o <<",", " ", " ", " ", " ", "}">>

OnlyCount(c) == <<"{">> \o Quoted(count) \o <<":", " ">> \o c \o <<"}">>

OnlyCapacity(p) ==
    <<"{", NL>> \o Quoted(capacity) \o <<":">> \o p \o <<NL, "}">>

Entry(code, v) == Quoted(code) \o <<":", " ">> \o v \o <<",", NL>>

XYZ == <<"X", "Y", "Z">>

ArcEntries ==
    {<<>>,
     Entry(ARC, Full(<<"3">>, <<"8">>)),
     Entry(ARC, OnlyCount(<<"3">>)),
     Entry(ARC, <<"{", "}">>),
     Entry(ARC, <<"5">>),
     Entry(ARC, OneLine(W_NaN, W_null)),
     Entry(ARC, Full(<<"a", "b", "c">>, <<"8">>)),
     Entry(ARC, Full(Quoted(<<"7">>), W_true))}

MidEntries ==
    {<<>>} \cup {Entry(FacilityCodes[k], Full(<<"1", "0">>, <<"1", "4", "0">>))
                   : k \in 2..9}

UplEntries ==
    {<<>>,
     Entry(UPL, Full(<<"1", "2">>, <<"-", "5">>)),
     Entry(UPL, OnlyCapacity(<<"1", "4">>))}

OtherEntries ==
    {<<>>,
     Entry(XYZ, Full(<<"1">>, <<"2">>)),
     Entry(XYZ, W_NaN),
     Entry(XYZ, W_NegInfinity)}

\* 'd = {' entries '};' : the object literal of the widget among the script's
\* other statements
WidgetFamily ==
    {<<"d", " ", "=", " ", "{", NL>> \o a \o m \o u \o o \o <<"}", ";">> :
        a \in ArcEntries, m \in MidEntries, u \in UplEntries,
        o \in OtherEntries}

NestedThenMore == <<"{", "a", "{", "b", "}", "c", "}", "t", "r", "a", "i", "l", "i", "n", "g", "{", "d", "}">>

CloseFirst == <<"}", "{", "a", "}">>

Scripts == ScanFamily \cup FormatFamily \cup WidgetFamily
           \cup {NestedThenMore, CloseFirst}

ClockSamples ==
    {[year |-> 2026, month |-> 11, day |-> 2, hour |-> 8, minute |-> 40,
      second |-> 0, microsecond |-> 0],
     [year |-> 2026, month |-> 11, day |-> 2, hour |-> 8, minute |-> 40,
      second |-> 0, microsecond |-> 123456],
     [year |-> 987, month |-> 1, day |-> 9, hour |-> 23, minute |-> 59,
      second |-> 59, microsecond |-> 7]}

----------------------------------------------------------------------------
(* One run of main(). *)

Init ==
    /\ pc = "credentials"
    /\ script = NoneText
    /\ span = NoSpan
    /\ json_text = NoneText
    /\ values = NoValue
    /\ map_time = NoTime
    /\ row = NoRow
    /\ error = ""
    /\ sheet = <<>>

\* an exception leaves main(): nothing after the raising statement runs
Raise(e) == pc' = "failed" /\ error' = e

\* line 137: the credentials file is read, or cannot be
LoadCredentials ==
    /\ pc = "credentials"
    /\ \/ pc' = "build" /\ UNCHANGED error
       \/ Raise("CredentialsError")
    /\ UNCHANGED <<script, span, json_text, values, map_time, row, sheet>>

\* line 139
BuildService ==
    /\ pc = "build"
    /\ \/ pc' = "scrape" /\ UNCHANGED error
       \/ Raise("BuildError")
    /\ UNCHANGED <<script, span, json_text, values, map_time, row, sheet>>

\* lines 123-124: the page is fetched and the third script's .string (a text,
\* or None) is handed to scrape_script; the request or the [2] may raise
Fetch ==
    /\ pc = "scrape"
    /\ \/ /\ \E s \in Scripts \cup {NoneText} : script' = s
          /\ pc' = "scrape_occupancy_data"
          /\ UNCHANGED error
       \/ Raise("FetchError") /\ UNCHANGED script
    /\ UNCHANGED <<span, json_text, values, map_time, row, sheet>>

\* line 112, the inner call: enumerate(None) raises TypeError
ScrapeOccupancyData ==
    /\ pc = "scrape_occupancy_data"
    /\ IF script = NoneText
       THEN Raise(NotIterable) /\ UNCHANGED <<span, json_text>>
       ELSE /\ span' = Scan(script)
            /\ json_text' = scrape_occupancy_data(script)
            /\ pc' = "json_to_row"
            /\ UNCHANGED error
    /\ UNCHANGED <<script, values, map_time, row, sheet>>

\* variant: main carries on to the append whatever json_to_row did
JsonToRowAlwaysContinues ==
    /\ pc = "json_to_row"
    /\ \E now \in ClockSamples :
        LET out == json_to_row(json_text, now)
        IN /\ values' = out.values
           /\ map_time' = out.map_time
           /\ row' = out.row
           /\ error' = out.error
           /\ pc' = "append"
    /\ UNCHANGED <<script, span, json_text, sheet>>

\* line 112, the outer call, and the return through scrape() to line 141
JsonToRow ==
    /\ pc = "json_to_row"
    /\ \E now \in ClockSamples :
        LET out == json_to_row(json_text, now)
        IN /\ values' = out.values
           /\ map_time' = out.map_time
           /\ row' = out.row
           /\ error' = out.error
           /\ pc' = IF out.error = "" THEN "append" ELSE "failed"
    /\ UNCHANGED <<script, span, json_text, sheet>>

\* lines 142-151: the row is printed, wrapped and appended; the request may
\* raise
AppendRow ==
    /\ pc = "append"
    /\ \/ /\ sheet' = Append(sheet, make_value_range(row))
          /\ pc' = "done"
          /\ UNCHANGED error
       \/ Raise("AppendError") /\ UNCHANGED sheet
    /\ UNCHANGED <<script, span, json_text, values, map_time, row>>

Next ==
    \/ LoadCredentials
    \/ BuildService
    \/ Fetch
    \/ ScrapeOccupancyData
    \/ JsonToRow
    \/ AppendRow

Spec == Init /\ [][Next]_vars

----------------------------------------------------------------------------
(* What the claims speak of. *)

\* the scan of the fetched text has returned
Scanned == script # NoneText /\ pc # "scrape_occupancy_data"

\* json_to_row has returned or raised
Mapped == Scanned /\ pc # "json_to_row"

Opens(d) == {i \in 1..Len(d) : d[i] = "{"}
Closes(d) == {i \in 1..Len(d) : d[i] = "}"}

\* '{' minus '}' among the first i characters
Depth(d, i) ==
    Cardinality({j \in Opens(d) : j <= i}) - Cardinality({j \in Closes(d) : j <= i})

FirstOpen(d) == Min(Opens(d))

\* the first '}' after the first '{' at which the depth is back at 0
FirstReturnToZero(d) ==
    Min({i \in Closes(d) : i > FirstOpen(d) /\ Depth(d, i) = 0})

NoOpen(d) == Opens(d) = {}

CloseBeforeAnyOpen(d) ==
    \E i \in Closes(d) : \A j \in Opens(d) : i < j

OpenAtEnd(d) ==
    /\ Opens(d) # {}
    /\ ~CloseBeforeAnyOpen(d)
    /\ \A i \in FirstOpen(d)..Len(d) : Depth(d, i) > 0

\* texts put after a found span, with balanced braces and without
Trailers == {<<"t", "{", "d", "}">>, <<"}", "}">>, <<"{", "{", SQ, ",", NL, "}">>}

ExpectedCodes == {FacilityCodes[k] : k \in 1..10}

\* the record is a mapping whose values are all mappings
MappingOfMappings(v) ==
    v.t = "dict" /\ \A c \in DOMAIN v.m : v.m[c].t = "dict"

AllDigits(s, from, to) == \A i \in from..to : IsDigit(s[i])

\* YYYY-MM-DD HH:MM:SS
ShortForm(s) ==
    /\ Len(s) = 19
    /\ AllDigits(s, 1, 4) /\ s[5] = "-" /\ AllDigits(s, 6, 7) /\ s[8] = "-"
    /\ AllDigits(s, 9, 10) /\ s[11] = " " /\ AllDigits(s, 12, 13)
    /\ s[14] = ":" /\ AllDigits(s, 15, 16) /\ s[17] = ":"
    /\ AllDigits(s, 18, 19)

\* YYYY-MM-DD HH:MM:SS.ffffff
FullForm(s) ==
    /\ Len(s) = 26
    /\ ShortForm(SubSeq(s, 1, 19))
    /\ s[20] = "."
    /\ AllDigits(s, 21, 26)

\* the clock value a timestamp text of either form denotes
TimeOf(s) ==
    [year |-> NatOf(SubSeq(s, 1, 4)), month |-> NatOf(SubSeq(s, 6, 7)),
     day |-> NatOf(SubSeq(s, 9, 10)), hour |-> NatOf(SubSeq(s, 12, 13)),
     minute |-> NatOf(SubSeq(s, 15, 16)), second |-> NatOf(SubSeq(s, 18, 19)),
     microsecond |-> IF Len(s) > 19 THEN NatOf(SubSeq(s, 21, Len(s))) ELSE 0]

\* the text is in the JSON grammar, which has no NaN, Infinity or -Infinity
IsStrictJson(s) == Decode(s, FALSE).ok

DoubleCommaNewlineBrace == <<",", ",", NL, "}">>
CommaNewlineCommaSpacesBrace == <<",", NL>> \o CommaSpacesBrace

----------------------------------------------------------------------------
(* The claims. *)

\* C1: when the scan succeeds, the span starts at the first '{' of the text
\* and ends at the first later '}' at which the depth returns to 0; the result
\* is the same when everything after that '}' is dropped or replaced, also by
\* text with further balanced braces; "{a{b}c}trailing{d}" yields "{a{b}c}".
C1_FirstBalancedSpan ==
    (Scanned /\ span # NoSpan) =>
        /\ span.start_index = FirstOpen(script)
        /\ span.index = FirstReturnToZero(script)
        /\ json_text = scrape_occupancy_data(SubSeq(script, 1, span.index))
        /\ \A t \in Trailers :
              scrape_occupancy_data(SubSeq(script, 1, span.index) \o t)
                  = json_text
        /\ script = NestedThenMore =>
              json_text = <<"{", "a", "{", "b", "}", "c", "}">>

C1_Witness ==
    /\ pc = "json_to_row"
    /\ script = NestedThenMore
    /\ span = [start_index |-> 1, index |-> 7]
    /\ json_text = <<"{", "a", "{", "b", "}", "c", "}">>

\* C2: for a text that is empty, has no '{', has a '}' before any '{', or
\* ends with the depth above 0, the scan returns None and raises nothing.
C2_NotFound ==
    (Scanned /\ (script = <<>> \/ NoOpen(script) \/ CloseBeforeAnyOpen(script)
                 \/ OpenAtEnd(script))) =>
        /\ span = NoSpan
        /\ json_text = NoneText
        /\ error # NotIterable
        /\ pc = "json_to_row" => error = ""

C2_Witness ==
    /\ pc = "json_to_row"
    /\ script = CloseFirst
    /\ json_text = NoneText
    /\ error = ""

\* C3: a row has 21 entries; for the k-th facility code (k = 0..9) that the
\* record holds with both fields, entry 2k+1 (counted from 0) is the string
\* form of its count and entry 2k+2 that of its capacity, whatever other keys
\* the record holds; the numbers written in the text come out digit for digit.
C3_RowLayout ==
    row # NoRow =>
        /\ Len(row) = 21
        /\ \A k \in 1..10 :
              LET code == FacilityCodes[k]
              IN (/\ code \in DOMAIN values.m
                  /\ values.m[code].t = "dict"
                  /\ {count, capacity} \subseteq DOMAIN values.m[code].m) =>
                     /\ row[2 * k] = PyStr(values.m[code].m[count])
                     /\ row[2 * k + 1] = PyStr(values.m[code].m[capacity])
        /\ \A k \in 2..9 :
              Contains(script, Entry(FacilityCodes[k],
                                     Full(<<"1", "0">>, <<"1", "4", "0">>))) =>
                  row[2 * k] = <<"1", "0">> /\ row[2 * k + 1] = <<"1", "4", "0">>
        /\ Contains(script, Entry(ARC, Full(<<"3">>, <<"8">>))) =>
              row[2] = <<"3">> /\ row[3] = <<"8">>
        /\ Contains(script, Entry(UPL, Full(<<"1", "2">>, <<"-", "5">>))) =>
              row[20] = <<"1", "2">> /\ row[21] = <<"-", "5">>

C3_Witness ==
    /\ row # NoRow
    /\ DOMAIN values.m = {ARC, MVJ, UPL, XYZ}
    /\ row[2] = <<"3">> /\ row[3] = <<"8">>
    /\ row[10] = <<"1", "0">> /\ row[11] = <<"1", "4", "0">>
    /\ row[20] = <<"1", "2">>

C5_MapperTotal ==
    (Mapped /\ MappingOfMappings(values)) =>
        /\ row # NoRow
        /\ error = ""
        /\ \A k \in 1..NumSlots :
              (/\ SlotCode(k) \in DOMAIN values.m
               /\ SlotField(k) \notin DOMAIN values.m[SlotCode(k)].m) =>
                  row[k + 1] = <<>>

\* C6: the spreadsheet is appended to only after the pipeline returned a row,
\* and with that row; when no balanced span was found or the JSON parse
\* failed, the run has failed with no row and nothing appended.
C6_AppendOnlyAfterRow ==
    /\ pc = "append" => row # NoRow /\ error = ""
    /\ sheet # <<>> =>
          row # NoRow /\ pc = "done" /\ sheet = <<make_value_range(row)>>
    /\ (Mapped /\ (span = NoSpan \/ ~json_loads(json_text).ok)) =>
          /\ pc = "failed"
          /\ error \in {NotAString, JSONDecodeError}
          /\ row = NoRow
          /\ sheet = <<>>

C6_Witness ==
    /\ pc = "done"
    /\ Len(sheet) = 1
    /\ Len(sheet[1].values[1]) = 21

C8_ReturnsSlice ==
    (Scanned /\ span # NoSpan) => json_text = Slice(script, span)

\* C9 (as claimed): entry 0 of every row has the form
\* YYYY-MM-DD HH:MM:SS.ffffff, for every clock value.
C9_AlwaysFullForm ==
    row # NoRow => FullForm(row[1])

\* C9 (amended): entry 0 of every row is the clock value read inside
\* json_to_row, which reads the clock only after the parse succeeded; it has
\* the form YYYY-MM-DD HH:MM:SS.ffffff when the microsecond of that value is
\* not 0 and the form YYYY-MM-DD HH:MM:SS, without a fraction, when it is 0.
C9_TimestampOfMapping ==
    /\ map_time # NoTime => Mapped /\ values.t = "dict"
    /\ row # NoRow =>
          /\ map_time \in ClockSamples
          /\ TimeOf(row[1]) = map_time
          /\ IF map_time.microsecond = 0 THEN ShortForm(row[1])
             ELSE FullForm(row[1])

C9_Witness ==
    /\ row # NoRow
    /\ map_time.microsecond = 0
    /\ map_time.year = 2026
    /\ Len(row[1]) = 19

\* C10 (as claimed): the text format_scraped_json returns holds no single
\* quote and no comma that is followed by a newline and a closing brace.
C10_NoTrailingComma ==
    (Scanned /\ span # NoSpan) =>
        /\ ~Contains(json_text, <<SQ>>)
        /\ ~Contains(json_text, CommaNewlineBrace)

\* C10 (amended): the text format_scraped_json returns holds no single quote;
\* it holds a comma followed by a newline and a closing brace exactly when the
\* text after the per-line transform held two commas before the newline and
\* the brace (',,\n}') or held ',\n,    }': each replace is one pass over the
\* text and is not repeated on what it leaves.
C10_OnePassCommaRemoval ==
    (Scanned /\ span # NoSpan) =>
        LET t == PerLine(Slice(script, span))
        IN /\ ~Contains(json_text, <<SQ>>)
           /\ Contains(json_text, CommaNewlineBrace)
                 <=> \/ Contains(t, DoubleCommaNewlineBrace)
                     \/ Contains(t, CommaNewlineCommaSpacesBrace)

C10_Witness ==
    /\ Scanned
    /\ span # NoSpan
    /\ Contains(script, <<SQ>>)
    /\ Contains(PerLine(Slice(script, span)), CommaNewlineBrace)
    /\ ~Contains(json_text, CommaNewlineBrace)

====
